---------------------------- MODULE Spec2Model ----------------------------
(***************************************************************************)
(* A model of the ParticleCanvas component (components/ParticleCanvas.tsx): *)
(* the image sampler initParticles, the debounced resize handler, the      *)
(* image-loading effect, the animation effect and the per-frame callback   *)
(* animate with its pointer smoothing and particle physics.                *)
(*                                                                         *)
(* Numbers.  The component computes in IEEE doubles.  The model holds      *)
(* every length (positions, velocities, origins, pointer coordinates) as   *)
(* an integer number of quanta, Q quanta to the pixel, and rounds each     *)
(* division to the nearest quantum.  A JavaScript number that may also be  *)
(* null or NaN is a pair <<tag, value>> with tag "num", "null" or "nan".   *)
(* A particle's density is held in half units, so that the source's        *)
(* density * 2.0 is the stored integer; its size is held in 1/1000 pixel.  *)
(* Math.random() returns a quarter k/4, written k; every call of one       *)
(* sampling pass returns the draws of the pass's tape.                     *)
(***************************************************************************)
EXTENDS Integers, Sequences, FiniteSets, TLC

\* Quanta per pixel.
Q == 10

-----------------------------------------------------------------------------
(* JavaScript numbers *)

Num(v) == <<"num", v>>
NaN == <<"nan", 0>>
Null == <<"null", 0>>
IsNum(a) == a[1] = "num"
Val(a) == a[2]
Px(n) == Num(n * Q)

Abs(n) == IF n < 0 THEN -n ELSE n
Min(a, b) == IF a < b THEN a ELSE b

\* a / b for b > 0, rounded to the nearest integer (halves away from zero).
RoundDiv(a, b) ==
  IF a >= 0 THEN (2 * a + b) \div (2 * b) ELSE -((2 * (-a) + b) \div (2 * b))

\* Math.sqrt(n) rounded to the nearest integer, by bisection on [lo, hi].
RECURSIVE SqrtSearch(_, _, _)
SqrtSearch(n, lo, hi) ==
  IF lo >= hi THEN lo
  ELSE LET mid == (lo + hi + 1) \div 2
       IN IF mid * mid <= n THEN SqrtSearch(n, mid, hi)
          ELSE SqrtSearch(n, lo, mid - 1)

Sqrt(n) ==
  LET f == SqrtSearch(n, 0, Min(n, 46340))
  IN IF n - f * f > f THEN f + 1 ELSE f

\* a + b, a - b on JavaScript numbers: NaN when either operand is NaN.
Add(a, b) == IF IsNum(a) /\ IsNum(b) THEN Num(Val(a) + Val(b)) ELSE NaN
Sub(a, b) == IF IsNum(a) /\ IsNum(b) THEN Num(Val(a) - Val(b)) ELSE NaN


-----------------------------------------------------------------------------
(* Inputs of the model *)

\* window.innerWidth, window.innerHeight the browser may report, in pixels.
WindowSizes == {<<8, 8>>, <<6, 6>>}

\* The decoded bitmaps an imageSrc may name: width, height and the alpha
\* channel of each source pixel <<column, row>>.  imageSrc is an index of
\* Bitmaps.  The third is opaque and 384 times as wide as high: it covers a
\* canvas of that shape.
Bitmaps ==
  << [width |-> 2, height |-> 2,
      alpha |-> [c \in (0..1) \X (0..1) |->
                   IF c = <<1, 1>> THEN 255 ELSE IF c = <<0, 1>> THEN 128 ELSE 0]],
     [width |-> 2, height |-> 2,
      alpha |-> [c \in (0..1) \X (0..1) |-> 0]],
     [width |-> 384, height |-> 1,
      alpha |-> [c \in (0..383) \X (0..0) |-> 255]] >>

\* The imageSrc values of the component's life: the first two bitmaps.
ImageSrcs == {1, 2}

\* The canvas sizes and bitmaps the sampler alone is run on.
SampleSizes ==
  {<<8, 8>>, <<6, 6>>, <<9, 7>>, <<12, 5>>, <<7, 12>>, <<12, 12>>, <<20, 14>>,
   <<768, 2>>, <<770, 4>>, <<767, 3>>}
SampleSrcs == DOMAIN Bitmaps

\* The Math.random() draws of one sampling pass: angle and unit in quarters,
\* radial the draw under Math.sqrt (0 or 1/4, whose roots are 0 and 1/2).
Tapes ==
  { [angle |-> 0, radial |-> 0, unit |-> 0],
    [angle |-> 1, radial |-> 1, unit |-> 2] }

\* Canvas coordinates (pixels) a pointer source may report.
PointerCoords == {0, 4, 100}

-----------------------------------------------------------------------------
(* initParticles: the image sampler *)

\* Math.min(width, height) * 0.45, in quanta.
UniverseRadius(width, height) == RoundDiv(Min(width, height) * Q * 45, 100)

CenterOf(length) == (length * Q) \div 2

\* A faulty count with no cap.
AmbientCountUncapped(width, height) ==
  LET m == Min(width, height)
      n == (1917 * m * m) \div 90400
      r == (1917 * m * m) % 90400
  IN IF r * 6143 < m * m THEN n - 1 ELSE n

\* Math.min(Math.floor(Math.PI * r * r / 30), 20000) for r = 0.45 * min(w, h)
\* and min(w, h) = m up to 1058.  r * r / 30 is 27 * m * m / 4000; with 355/113
\* for Math.PI the product is 1917 * m * m / 90400, which exceeds the true one
\* by m * m / (6143 * 90400): the floor is one less where the remainder is
\* smaller than that excess.
AmbientCount(width, height) ==
  LET m == Min(width, height)
      n == (1917 * m * m) \div 90400
      r == (1917 * m * m) % 90400
  IN Min(IF r * 6143 < m * m THEN n - 1 ELSE n, 20000)

Cos4(k) == CASE k = 0 -> 1 [] k = 1 -> 0 [] k = 2 -> -1 [] OTHER -> 0
Sin4(k) == CASE k = 0 -> 0 [] k = 1 -> 1 [] k = 2 -> 0 [] OTHER -> -1

\* One ambient particle of a pass whose draws are tape.
AmbientParticle(width, height, tape) ==
  LET centerX == CenterOf(width)
      centerY == CenterOf(height)
      r == RoundDiv(tape.radial * UniverseRadius(width, height), 2)
      x == centerX + r * Cos4(tape.angle)
      y == centerY + r * Sin4(tape.angle)
      isStar == tape.unit = 0
  IN [x |-> Num(x), y |-> Num(y),
      originX |-> x - centerX, originY |-> y - centerY,
      color |-> IF isStar THEN 155 + (100 * tape.unit) \div 4
                ELSE 10 + (30 * tape.unit) \div 4,
      size |-> IF isStar THEN 500 + 375 * tape.unit ELSE 500 + 500 * tape.unit,
      vx |-> Num(0), vy |-> Num(0),
      density |-> 2 + 10 * tape.unit]

\* ctx.drawImage(img, startX, startY, drawWidth, drawHeight) followed by
\* getImageData: the alpha of canvas pixel (pX, pY), taken from the source
\* pixel under the canvas pixel's centre, 0 outside the drawn rectangle.
\* drawWidth = dwN / dwD and drawHeight = dhN / dhD are kept as fractions.
AlphaAt(img, width, height, pX, pY) ==
  LET tall == 2 * width * img.height > 2 * height * img.width
      dwN == IF tall THEN 2 * height * img.width ELSE 2 * width
      dwD == IF tall THEN img.height ELSE 1
      dhN == IF tall THEN 2 * height ELSE 2 * width * img.height
      dhD == IF tall THEN 1 ELSE img.width
      \* startX = (width - drawWidth) / 1.8, startY = (height - drawHeight) / 2.5
      col == (((2 * pX + 1) * 9 * dwD - 10 * (width * dwD - dwN)) * img.width)
               \div (18 * dwN)
      row == (((2 * pY + 1) * 5 * dhD - 4 * (height * dhD - dhN)) * img.height)
               \div (10 * dhN)
  IN IF col \in 0..(img.width - 1) /\ row \in 0..(img.height - 1)
     THEN img.alpha[<<col, row>>] ELSE 0

\* A faulty stride that is never widened.
StepOfTwo(width) == 2

\* const step = width < 768 ? 3 : 2
StepOf(width) == IF width < 768 THEN 3 ELSE 2

\* The pixels the two nested loops visit, in the order they visit them.
GridOf(width, height) ==
  LET step == StepOf(width)
      nx == (width + step - 1) \div step
      ny == (height + step - 1) \div step
  IN [k \in 1..(nx * ny) |-> <<((k - 1) % nx) * step, ((k - 1) \div nx) * step>>]

\* A faulty image particle whose origin is taken from its random start.
ImageParticleFromStart(width, height, at, tape) ==
  [x |-> Num((tape.unit * width * Q) \div 4),
   y |-> Num((tape.unit * height * Q) \div 4),
   originX |-> (tape.unit * width * Q) \div 4 - CenterOf(width),
   originY |-> (tape.unit * height * Q) \div 4 - CenterOf(height),
   color |-> 255,
   size |-> IF tape.unit < 2 THEN 600 + 200 * tape.unit ELSE 200 + 100 * tape.unit,
   vx |-> Num(0), vy |-> Num(0),
   density |-> 2 + 15 * tape.unit]

\* One image particle, for the canvas pixel at.
ImageParticle(width, height, at, tape) ==
  [x |-> Num((tape.unit * width * Q) \div 4),
   y |-> Num((tape.unit * height * Q) \div 4),
   originX |-> at[1] * Q - CenterOf(width),
   originY |-> at[2] * Q - CenterOf(height),
   color |-> 255,
   size |-> IF tape.unit < 2 THEN 600 + 200 * tape.unit ELSE 200 + 100 * tape.unit,
   vx |-> Num(0), vy |-> Num(0),
   density |-> 2 + 15 * tape.unit]

Emits(img, width, height, at) ==
  /\ (at[2] * width + at[1]) * 4 < width * height * 4
  /\ AlphaAt(img, width, height, at[1], at[2]) > 128

\* newParticles: the ambient particles, then the image particles.
NewParticles(img, width, height, tape) ==
  LET grid == GridOf(width, height)
      kept == SelectSeq(grid, LAMBDA at : Emits(img, width, height, at))
  IN [i \in 1..AmbientCount(width, height) |-> AmbientParticle(width, height, tape)]
     \o [k \in 1..Len(kept) |-> ImageParticle(width, height, kept[k], tape)]

-----------------------------------------------------------------------------
(* animate: pointer smoothing and particle physics *)

\* radiusRef, in pixels.
InteractionRadius == 320
\* The coordinate used in place of a falsy pointer coordinate, in pixels.
Sentinel == -1000
\* smoothFactor = 0.15, in hundredths.
SmoothFactor == 15
\* The spring's divisor: p.vx -= dxHome / 25.
SpringDivisor == 25
\* Friction: p.vx *= 0.90, in hundredths.
Friction == 90

\* JavaScript's ToNumber on a number or null.
ToNumber(a) == IF a = Null THEN Num(0) ELSE a

\* A faulty lerp, its factor applied from the wrong end:
\* end + (start - end) * factor.
LerpFromEnd(start, end) ==
  LET a == ToNumber(start)
      b == ToNumber(end)
  IN IF IsNum(a) /\ IsNum(b)
     THEN Num(Val(b) + RoundDiv((Val(a) - Val(b)) * SmoothFactor, 100))
     ELSE NaN

\* lerp(start, end, smoothFactor) = start + (end - start) * factor.
Lerp(start, end) ==
  LET a == ToNumber(start)
      b == ToNumber(end)
  IN IF IsNum(a) /\ IsNum(b)
     THEN Num(Val(a) + RoundDiv((Val(b) - Val(a)) * SmoothFactor, 100))
     ELSE NaN

\* A faulty smoothing with no snap: a null current is interpolated like a
\* number.
SmoothNoSnap(tgt, cur) ==
  IF tgt.x # Null /\ tgt.y # Null
  THEN [x |-> Lerp(cur.x, tgt.x), y |-> Lerp(cur.y, tgt.y)]
  ELSE [x |-> Null, y |-> Null]

\* A faulty smoothing whose snap copies the target's x only.
SmoothSnapsX(tgt, cur) ==
  IF tgt.x # Null /\ tgt.y # Null
  THEN IF cur.x = Null
       THEN [x |-> tgt.x, y |-> cur.y]
       ELSE [x |-> Lerp(cur.x, tgt.x), y |-> Lerp(cur.y, tgt.y)]
  ELSE [x |-> Null, y |-> Null]

\* A faulty smoothing that keeps the last current while the target is null.
SmoothKeepsLast(tgt, cur) ==
  IF tgt.x # Null /\ tgt.y # Null
  THEN IF cur.x = Null
       THEN [x |-> tgt.x, y |-> tgt.y]
       ELSE [x |-> Lerp(cur.x, tgt.x), y |-> Lerp(cur.y, tgt.y)]
  ELSE cur

\* The new currentRef.current, from targetRef.current and the old one.
Smooth(tgt, cur) ==
  IF tgt.x # Null /\ tgt.y # Null
  THEN IF cur.x = Null
       THEN [x |-> tgt.x, y |-> tgt.y]
       ELSE [x |-> Lerp(cur.x, tgt.x), y |-> Lerp(cur.y, tgt.y)]
  ELSE [x |-> Null, y |-> Null]

\* A faulty fallback with no sentinel: a falsy coordinate counts as 0.
OrZero(a) == IF a = Null \/ a = NaN \/ a = Num(0) THEN Num(0) ELSE a

\* (a || -1000): the sentinel when a is null, 0 or NaN.
OrSentinel(a) == IF a = Null \/ a = NaN \/ a = Num(0) THEN Px(Sentinel) ELSE a

\* distance < maxDistance, for distance = Math.sqrt(dx * dx + dy * dy).
Within(dx, dy, maxDistance) ==
  /\ Abs(dx) < maxDistance
  /\ Abs(dy) < maxDistance
  /\ dx * dx + dy * dy < maxDistance * maxDistance

\* forceDirection * force * p.density * 2.0 along one axis, for a particle
\* at distance > 0 inside the radius: d / distance *
\* (maxDistance - distance) / maxDistance * density * 2.0, in quanta.
Repulsion(d, distance, maxDistance, density) ==
  RoundDiv(d * (maxDistance - distance) * density * Q, distance * maxDistance)

\* v * 0.90
Damp(v) == IF IsNum(v) THEN Num(RoundDiv(Val(v) * Friction, 100)) ELSE NaN

\* The home position along one axis: center + origin.
HomeOf(length, origin) == CenterOf(length) + origin

\* The velocity after the spring along one axis.
Spring(pos, vel, home) ==
  IF pos # Num(home)
  THEN IF IsNum(pos) /\ IsNum(vel)
       THEN Num(Val(vel) - RoundDiv(Val(pos) - home, SpringDivisor))
       ELSE NaN
  ELSE vel

\* A faulty physics pass that stores each particle's home as its origin.
StepParticleRehomed(p, cur, width, height) ==
  [p EXCEPT !.originX = HomeOf(width, p.originX),
            !.originY = HomeOf(height, p.originY)]

\* A faulty physics pass that guards the division: a particle at distance 0
\* from the point gets no force.
StepParticleGuarded(p, cur, width, height) ==
  LET dx == Sub(OrSentinel(cur.x), p.x)
      dy == Sub(OrSentinel(cur.y), p.y)
      maxDistance == InteractionRadius * Q
      near == IsNum(dx) /\ IsNum(dy) /\ Within(Val(dx), Val(dy), maxDistance)
      distance == Sqrt(Val(dx) * Val(dx) + Val(dy) * Val(dy))
      vx1 == IF near
             THEN IF distance = 0 THEN p.vx
                  ELSE Sub(p.vx, Num(Repulsion(Val(dx), distance, maxDistance, p.density)))
             ELSE Spring(p.x, p.vx, HomeOf(width, p.originX))
      vy1 == IF near
             THEN IF distance = 0 THEN p.vy
                  ELSE Sub(p.vy, Num(Repulsion(Val(dy), distance, maxDistance, p.density)))
             ELSE Spring(p.y, p.vy, HomeOf(height, p.originY))
      vx2 == Damp(vx1)
      vy2 == Damp(vy1)
  IN [p EXCEPT !.vx = vx2, !.vy = vy2, !.x = Add(p.x, vx2), !.y = Add(p.y, vy2)]

\* One pass of the physics loop over particle p, the pointer at cur.
StepParticle(p, cur, width, height) ==
  LET dx == Sub(OrSentinel(cur.x), p.x)
      dy == Sub(OrSentinel(cur.y), p.y)
      maxDistance == InteractionRadius * Q
      near == IsNum(dx) /\ IsNum(dy) /\ Within(Val(dx), Val(dy), maxDistance)
      distance == Sqrt(Val(dx) * Val(dx) + Val(dy) * Val(dy))
      vx1 == IF near
             THEN IF distance = 0 THEN NaN
                  ELSE Sub(p.vx, Num(Repulsion(Val(dx), distance, maxDistance, p.density)))
             ELSE Spring(p.x, p.vx, HomeOf(width, p.originX))
      vy1 == IF near
             THEN IF distance = 0 THEN NaN
                  ELSE Sub(p.vy, Num(Repulsion(Val(dy), distance, maxDistance, p.density)))
             ELSE Spring(p.y, p.vy, HomeOf(height, p.originY))
      vx2 == Damp(vx1)
      vy2 == Damp(vy1)
  IN [p EXCEPT !.vx = vx2, !.vy = vy2, !.x = Add(p.x, vx2), !.y = Add(p.y, vy2)]

\* A faulty physics phase that drops the array's first particle.
PhysicsDropsFirst(ps, cur, width, height) ==
  [i \in 1..(Len(ps) - 1) |-> StepParticle(ps[i + 1], cur, width, height)]

\* The physics phase over a particle array.
Physics(ps, cur, width, height) ==
  [i \in DOMAIN ps |-> StepParticle(ps[i], cur, width, height)]

-----------------------------------------------------------------------------
(* Bounds of the model *)

\* The events of one behaviour (resize events, imageSrc changes, pointer
\* events), its executed frames, and the clock's last instant and step
\* (milliseconds).
MaxEvents == 3
MaxFrames == 3
MaxTime == 300
TickMs == 100

\* setTimeout(..., 200)
DebounceMs == 200

-----------------------------------------------------------------------------
(* State *)

VARIABLES
  phase,            \* "committed": rendered, effects not yet run; "mounted";
                    \* "unmounting": refs detached, cleanups not yet run; "unmounted"
  imageSrc,         \* the imageSrc prop: an index of Bitmaps
  window,           \* <<window.innerWidth, window.innerHeight>>
  canvas,           \* <<canvas.width, canvas.height>>
  mainCtxOk,        \* whether canvas.getContext('2d') yields a context
  arrays,           \* every particle array made so far; arrays[1] is the initial []
  particles,        \* the particles state: an index of arrays
  effectPending,    \* the particles state changed and the animation effect has not yet re-run
  rafPending,       \* the requested animation frames: [id, set], set the array animate closes over
  animationRef,     \* animationRef.current
  rafNext,          \* the id the next requestAnimationFrame returns
  targetRef,        \* targetRef.current: [x, y]
  currentRef,       \* currentRef.current: [x, y]
  imageRef,         \* imageRef.current: an index of Bitmaps, 0 for null
  loads,            \* the Image objects still loading, by the bitmap each names
  timers,           \* the pending timeouts: [id, due]
  resizeTimeoutRef, \* resizeTimeoutRef.current: a timer id, 0 for null
  now,              \* the clock, in milliseconds
  timerNext,        \* the id the next setTimeout returns
  frames,           \* history: executed frames
  lastFrame,        \* history: the last frame's smoothing: [target, before], the
                    \* target and the current point it started with
  events,           \* history: resize events, imageSrc changes and pointer events
  lastCallAt,       \* history: the time of the last handleResize call that armed a timer
  passes,           \* history: initParticles calls
  lastPass,         \* history: the last initParticles call: [time, cause, timer]
  created,          \* history: the origins each array's particles were created with
  appState,         \* App's appState: "IDLE", "LOADING", "READY" or "ERROR"
  requests,         \* the generateCosmicImage calls in flight
  errorTimers       \* the pending ERROR-to-IDLE timeouts

renderVars == <<phase, imageSrc, arrays, particles, effectPending, created>>
canvasVars == <<window, canvas, mainCtxOk>>
frameVars == <<rafPending, animationRef, rafNext, frames, lastFrame>>
pointerVars == <<targetRef, currentRef>>
loadVars == <<imageRef, loads, passes, lastPass>>
timerVars == <<timers, resizeTimeoutRef, timerNext, now, lastCallAt>>
controlsVars == <<appState, requests, errorTimers>>
vars == <<renderVars, canvasVars, frameVars, pointerVars, loadVars, timerVars, events,
          controlsVars>>

NoPoint == [x |-> Null, y |-> Null]

\* canvasRef.current is the canvas element from the commit until the unmount.
CanvasAttached == phase \in {"committed", "mounted"}

\* The resize listener is registered from the resize effect to its cleanup.
Listening == phase \in {"mounted", "unmounting"}

Init ==
  /\ phase = "committed"
  /\ imageSrc \in ImageSrcs
  /\ window \in WindowSizes
  /\ canvas = <<300, 150>>
  /\ mainCtxOk \in BOOLEAN
  /\ arrays = << <<>> >>
  /\ particles = 1
  /\ effectPending = FALSE
  /\ rafPending = {}
  /\ animationRef = 0
  /\ rafNext = 1
  /\ targetRef = NoPoint
  /\ currentRef = NoPoint
  /\ imageRef = 0
  /\ loads = <<>>
  /\ timers = {}
  /\ resizeTimeoutRef = 0
  /\ now = 0
  /\ timerNext = 1
  /\ frames = 0
  /\ lastFrame = [target |-> NoPoint, before |-> NoPoint]
  /\ events = 0
  /\ lastCallAt = -1
  /\ passes = 0
  /\ lastPass = [time |-> -1, cause |-> "none", timer |-> 0]
  /\ created = << <<>> >>
  /\ appState = "IDLE"
  /\ requests = 0
  /\ errorTimers = 0

-----------------------------------------------------------------------------
(* Browser services *)

\* A faulty cancelAnimationFrame that leaves the request pending.
CancelNone(pending, id) == pending

RequestAnimationFrame(pending, id, set) == pending \cup {[id |-> id, set |-> set]}
CancelAnimationFrame(pending, id) == {c \in pending : c.id # id}
SetTimeout(ts, id, due) == ts \cup {[id |-> id, due |-> due]}
ClearTimeout(ts, id) == {t \in ts : t.id # id}

\* An array no requested frame closes over and the state does not hold is
\* unreachable: it is dropped, with its history.
Live(pending, state) == {c.set : c \in pending} \cup {state}
Collect(as, pending, state) ==
  [k \in DOMAIN as |-> IF k \in Live(pending, state) THEN as[k] ELSE <<>>]

OriginsOf(ps) == [i \in DOMAIN ps |-> <<ps[i].originX, ps[i].originY>>]

-----------------------------------------------------------------------------
(* initParticles, as called *)

\* initParticles(img, width, height) with the pass's draws and with ctxOk
\* telling whether the offscreen canvas yields a 2D context.  cause and timer
\* are history: what called it ("load" or "resize"), and the timer that did.
InitParticles(img, width, height, tape, ctxOk, cause, timer) ==
  /\ imageRef' = img
  /\ passes' = passes + 1
  /\ lastPass' = [time |-> now, cause |-> cause, timer |-> timer]
  /\ IF ctxOk
     THEN LET new == NewParticles(Bitmaps[img], width, height, tape)
              idx == Len(arrays) + 1
          IN /\ arrays' = Collect(Append(arrays, new), rafPending, idx)
             /\ created' = Collect(Append(created, OriginsOf(new)), rafPending, idx)
             /\ particles' = idx
             /\ effectPending' = TRUE
     ELSE UNCHANGED <<arrays, created, particles, effectPending>>

\* A faulty img.onload that samples the bitmap the current imageSrc names,
\* whichever image finished loading.
ImgOnloadCurrent(i) ==
  /\ i \in DOMAIN loads
  /\ loads' = [k \in 1..(Len(loads) - 1) |-> IF k < i THEN loads[k] ELSE loads[k + 1]]
  /\ IF CanvasAttached
     THEN \E tape \in Tapes, ctxOk \in BOOLEAN :
            InitParticles(imageSrc, canvas[1], canvas[2], tape, ctxOk, "load", 0)
     ELSE UNCHANGED <<imageRef, passes, lastPass, arrays, created, particles,
                      effectPending>>
  /\ UNCHANGED <<phase, imageSrc, canvasVars, frameVars, pointerVars, timerVars, events>>
  /\ UNCHANGED controlsVars

\* A faulty img.onload that does not test canvasRef.current.
ImgOnloadUnguarded(i) ==
  /\ i \in DOMAIN loads
  /\ loads' = [k \in 1..(Len(loads) - 1) |-> IF k < i THEN loads[k] ELSE loads[k + 1]]
  /\ \E tape \in Tapes, ctxOk \in BOOLEAN :
       InitParticles(loads[i], canvas[1], canvas[2], tape, ctxOk, "load", 0)
  /\ UNCHANGED <<phase, imageSrc, canvasVars, frameVars, pointerVars, timerVars, events>>
  /\ UNCHANGED controlsVars

\* img.onload of one of the images still loading.
ImgOnload(i) ==
  /\ i \in DOMAIN loads
  /\ loads' = [k \in 1..(Len(loads) - 1) |-> IF k < i THEN loads[k] ELSE loads[k + 1]]
  /\ IF CanvasAttached
     THEN \E tape \in Tapes, ctxOk \in BOOLEAN :
            InitParticles(loads[i], canvas[1], canvas[2], tape, ctxOk, "load", 0)
     ELSE UNCHANGED <<imageRef, passes, lastPass, arrays, created, particles,
                      effectPending>>
  /\ UNCHANGED <<phase, imageSrc, canvasVars, frameVars, pointerVars, timerVars, events>>
  /\ UNCHANGED controlsVars

\* The image-loading effect: a new Image for a non-null imageSrc.
ImageEffect(src) == IF src # 0 THEN Append(loads, src) ELSE loads

\* The parent passes another imageSrc: the image-loading effect runs again.
SetImageSrc(src) ==
  /\ phase = "mounted"
  /\ ~effectPending
  /\ events < MaxEvents
  /\ src # imageSrc
  /\ imageSrc' = src
  /\ events' = events + 1
  /\ loads' = ImageEffect(src)
  /\ UNCHANGED <<phase, arrays, particles, effectPending, created, imageRef, passes,
                 lastPass, canvasVars, frameVars, pointerVars, timerVars>>
  /\ UNCHANGED controlsVars

-----------------------------------------------------------------------------
(* The resize effect *)

\* A faulty handleResize that clears no timer.
ClearNothing(ts, ref) == ts

\* The timers left after handleResize's clearTimeout of the pending one.
ClearPending(ts, ref) == IF ref # 0 THEN ClearTimeout(ts, ref) ELSE ts

\* The instant the timer armed at time t is due.
DueAt(t) == t + DebounceMs

\* A faulty handleResize that arms the timer and leaves the canvas as it is.
HandleResizeTimerOnly(size) ==
  IF CanvasAttached
  THEN /\ canvas' = canvas
       /\ timers' = SetTimeout(ClearPending(timers, resizeTimeoutRef), timerNext, DueAt(now))
       /\ resizeTimeoutRef' = timerNext
       /\ timerNext' = timerNext + 1
       /\ lastCallAt' = now
  ELSE UNCHANGED <<canvas, timers, resizeTimeoutRef, timerNext, lastCallAt>>

\* handleResize, the window being size.
HandleResize(size) ==
  IF CanvasAttached
  THEN /\ canvas' = size
       /\ timers' = SetTimeout(ClearPending(timers, resizeTimeoutRef), timerNext, DueAt(now))
       /\ resizeTimeoutRef' = timerNext
       /\ timerNext' = timerNext + 1
       /\ lastCallAt' = now
  ELSE UNCHANGED <<canvas, timers, resizeTimeoutRef, timerNext, lastCallAt>>

\* The first run of the effects, in the order the component declares them:
\* the image-loading effect, the resize effect (which registers the listener
\* and calls handleResize), the animation effect (particles is []).
Mount ==
  /\ phase = "committed"
  /\ phase' = "mounted"
  /\ loads' = ImageEffect(imageSrc)
  /\ HandleResize(window)
  /\ UNCHANGED <<imageSrc, arrays, particles, effectPending, created, window, mainCtxOk,
                 frameVars, pointerVars, imageRef, passes, lastPass, now, events>>
  /\ UNCHANGED controlsVars

\* The window is resized to size: a resize event.
Resize(size) ==
  /\ events < MaxEvents
  /\ phase # "unmounted"
  /\ size # window
  /\ window' = size
  /\ events' = events + 1
  /\ IF Listening
     THEN HandleResize(size)
     ELSE UNCHANGED <<canvas, timers, resizeTimeoutRef, timerNext, lastCallAt>>
  /\ UNCHANGED <<renderVars, mainCtxOk, frameVars, pointerVars, loadVars, now>>
  /\ UNCHANGED controlsVars

\* A faulty timer callback that samples the bitmap imageSrc names, loaded
\* or not.
TimerFireCurrent(t) ==
  /\ t \in timers
  /\ t.due <= now
  /\ timers' = timers \ {t}
  /\ IF CanvasAttached
     THEN \E tape \in Tapes, ctxOk \in BOOLEAN :
            InitParticles(imageSrc, canvas[1], canvas[2], tape, ctxOk, "resize", t.id)
     ELSE UNCHANGED <<imageRef, passes, lastPass, arrays, created, particles,
                      effectPending>>
  /\ UNCHANGED <<phase, imageSrc, loads, canvasVars, frameVars, pointerVars,
                 resizeTimeoutRef, timerNext, now, lastCallAt, events>>
  /\ UNCHANGED controlsVars

\* The callback of a due timer.
TimerFire(t) ==
  /\ t \in timers
  /\ t.due <= now
  /\ timers' = timers \ {t}
  /\ IF imageRef # 0 /\ CanvasAttached
     THEN \E tape \in Tapes, ctxOk \in BOOLEAN :
            InitParticles(imageRef, canvas[1], canvas[2], tape, ctxOk, "resize", t.id)
     ELSE UNCHANGED <<imageRef, passes, lastPass, arrays, created, particles,
                      effectPending>>
  /\ UNCHANGED <<phase, imageSrc, loads, canvasVars, frameVars, pointerVars,
                 resizeTimeoutRef, timerNext, now, lastCallAt, events>>
  /\ UNCHANGED controlsVars

TimerDue == \E t \in timers : t.due <= now

\* Time passes, up to the next due timer.
Tick ==
  /\ now < MaxTime
  /\ LET next == Min(now + TickMs, MaxTime)
         dues == {t.due : t \in timers}
     IN now' = IF \E d \in dues : d < next
               THEN CHOOSE d \in dues : \A e \in dues : d <= e
               ELSE next
  /\ UNCHANGED <<renderVars, canvasVars, frameVars, pointerVars, loadVars,
                 timers, resizeTimeoutRef, timerNext, lastCallAt, events>>
  /\ UNCHANGED controlsVars

-----------------------------------------------------------------------------
(* The animation effect and animate *)

\* A faulty cleanup that cancels nothing.
AnimationCleanupNone(pending, ref) == pending

\* The animation effect's cleanup.
AnimationCleanup(pending, ref) ==
  IF ref # 0 THEN CancelAnimationFrame(pending, ref) ELSE pending

\* The animation effect's body: whether it requests a frame.
EffectRequests(ps) == Len(ps) > 0

\* The particles state changed: the animation effect's cleanup, then the effect.
FlushEffects ==
  /\ phase = "mounted"
  /\ effectPending
  /\ effectPending' = FALSE
  /\ LET cleaned == AnimationCleanup(rafPending, animationRef)
     IN IF EffectRequests(arrays[particles])
        THEN /\ rafPending' = RequestAnimationFrame(cleaned, rafNext, particles)
             /\ animationRef' = rafNext
             /\ rafNext' = rafNext + 1
        ELSE /\ rafPending' = cleaned
             /\ UNCHANGED <<animationRef, rafNext>>
  /\ arrays' = Collect(arrays, rafPending', particles)
  /\ created' = Collect(created, rafPending', particles)
  /\ UNCHANGED <<phase, imageSrc, particles, frames, lastFrame, canvasVars, pointerVars,
                 loadVars, timerVars, events>>
  /\ UNCHANGED controlsVars

\* Whether animate gets past its two early returns.
Draws == CanvasAttached /\ mainCtxOk

\* A faulty animate that requests no further frame.
RescheduleNone(pending, id, set) == pending

\* The frames requested once animate has run: the one it requests at its end.
Reschedule(pending, id, set) == RequestAnimationFrame(pending, id, set)

\* A requested animation frame fires: animate, closing over arrays[cb.set].
Animate(cb) ==
  /\ cb \in rafPending
  /\ IF Draws
     THEN /\ frames < MaxFrames
          /\ frames' = frames + 1
          /\ lastFrame' = [target |-> targetRef, before |-> currentRef]
          /\ currentRef' = Smooth(targetRef, currentRef)
          /\ arrays' = [arrays EXCEPT ![cb.set] =
                          Physics(arrays[cb.set], currentRef', canvas[1], canvas[2])]
          /\ rafPending' = Reschedule(rafPending \ {cb}, rafNext, cb.set)
          /\ animationRef' = rafNext
          /\ rafNext' = rafNext + 1
          /\ UNCHANGED created
     ELSE /\ rafPending' = rafPending \ {cb}
          /\ arrays' = Collect(arrays, rafPending', particles)
          /\ created' = Collect(created, rafPending', particles)
          /\ UNCHANGED <<frames, lastFrame, currentRef, animationRef, rafNext>>
  /\ UNCHANGED <<phase, imageSrc, particles, effectPending, canvasVars, targetRef,
                 loadVars, timerVars, events>>
  /\ UNCHANGED controlsVars

-----------------------------------------------------------------------------
(* Unmount *)

\* The component is removed: its refs are detached.
Unmount ==
  /\ phase = "mounted"
  /\ ~effectPending
  /\ phase' = "unmounting"
  /\ UNCHANGED <<imageSrc, arrays, particles, effectPending, created, canvasVars,
                 frameVars, pointerVars, loadVars, timerVars, events>>
  /\ UNCHANGED controlsVars

\* The effects' cleanups: the resize effect's, then the animation effect's.
Cleanup ==
  /\ phase = "unmounting"
  /\ phase' = "unmounted"
  /\ timers' = ClearPending(timers, resizeTimeoutRef)
  /\ rafPending' = AnimationCleanup(rafPending, animationRef)
  /\ arrays' = Collect(arrays, rafPending', particles)
  /\ created' = Collect(created, rafPending', particles)
  /\ UNCHANGED <<imageSrc, particles, effectPending, canvasVars, animationRef, rafNext,
                 frames, lastFrame, pointerVars, loadVars, resizeTimeoutRef, timerNext, now,
                 lastCallAt, events>>
  /\ UNCHANGED controlsVars

-----------------------------------------------------------------------------
(* Pointer sources *)

\* The points the canvas's mouse events and the gesture feed may report.
MousePoints == {[x |-> Px(a), y |-> Px(a)] : a \in {c \in PointerCoords : c < 6}}
HandPoints == {[x |-> Px(100), y |-> Px(100)], NoPoint}

\* targetRef.current becomes pt.
Point(pt) ==
  /\ events < MaxEvents
  /\ pt # targetRef
  /\ targetRef' = pt
  /\ events' = events + 1
  /\ UNCHANGED <<renderVars, canvasVars, frameVars, currentRef, loadVars, timerVars>>
  /\ UNCHANGED controlsVars

\* The imperative handle's setInteractionPoint(x, y).
SetInteractionPoint(pt) == pt \in HandPoints /\ Point(pt)

\* handleMouseMove, the mouse at pt of the canvas.
HandleMouseMove(pt) == pt \in MousePoints /\ CanvasAttached /\ Point(pt)

\* handleMouseLeave
HandleMouseLeave == Point(NoPoint)

-----------------------------------------------------------------------------
(* The Controls panel *)

\* What the panel's handlers leave of the canvas component.
canvasSide ==
  <<phase, arrays, particles, effectPending, created, canvasVars, frameVars,
    pointerVars, imageRef, passes, lastPass, timerVars>>

\* A click on the generate button, which is disabled while appState is
\* LOADING: handleGenerate up to its await.  keyOk: process.env.API_KEY is
\* set; promptOk: the prompt is not blank.
HandleGenerate(keyOk, promptOk) ==
  /\ phase = "mounted"
  /\ events < MaxEvents
  /\ appState # "LOADING"
  /\ events' = events + 1
  /\ IF keyOk /\ promptOk
     THEN appState' = "LOADING" /\ requests' = requests + 1
     ELSE UNCHANGED <<appState, requests>>
  /\ UNCHANGED <<canvasSide, imageSrc, loads, errorTimers>>

\* generateCosmicImage resolves with the image src: handleGenerate after its
\* await.  onImageSelect is setImageSrc: the image-loading effect runs again
\* when imageSrc changed.
GenerateResolves(src) ==
  /\ phase = "mounted"
  /\ ~effectPending
  /\ requests > 0
  /\ requests' = requests - 1
  /\ imageSrc' = src
  /\ loads' = IF src # imageSrc THEN ImageEffect(src) ELSE loads
  /\ appState' = "READY"
  /\ UNCHANGED <<canvasSide, events, errorTimers>>

\* generateCosmicImage rejects: handleGenerate's catch, which arms the
\* timeout that sets IDLE.
GenerateFails ==
  /\ requests > 0
  /\ requests' = requests - 1
  /\ appState' = "ERROR"
  /\ errorTimers' = errorTimers + 1
  /\ UNCHANGED <<canvasSide, imageSrc, loads, events>>

\* The callback of one of the ERROR-to-IDLE timeouts.
ErrorTimerFire ==
  /\ errorTimers > 0
  /\ errorTimers' = errorTimers - 1
  /\ appState' = "IDLE"
  /\ UNCHANGED <<canvasSide, imageSrc, loads, events, requests>>

-----------------------------------------------------------------------------
(* The component *)

\* The component shown with one imageSrc and no pointer source: its effects,
\* the window, the clock, the image load and the frames.  A due timer's
\* callback runs before anything else does.
Next ==
  \/ \E t \in timers : TimerFire(t)
  \/ /\ ~TimerDue
     /\ \/ Mount
        \/ \E size \in WindowSizes : Resize(size)
        \/ Tick
        \/ \E i \in DOMAIN loads : ImgOnload(i)
        \/ FlushEffects
        \/ \E cb \in rafPending : Animate(cb)
        \/ Unmount
        \/ Cleanup

Spec == Init /\ [][Next]_vars

\* The component in the first 200 ms after its mount, while its imageSrc
\* changes and the images load.
SourceNext ==
  \/ Mount
  \/ \E src \in ImageSrcs : SetImageSrc(src)
  \/ \E i \in DOMAIN loads : ImgOnload(i)
  \/ FlushEffects
  \/ \E cb \in rafPending : Animate(cb)

SourceSpec == Init /\ [][SourceNext]_vars

\* The mounted component in the first 200 ms after its mount, its 2D context
\* available: the pointer sources, the window and the frames.
PointerInit == Init /\ mainCtxOk

PointerNext ==
  \/ Mount
  \/ \E size \in WindowSizes : Resize(size)
  \/ \E i \in DOMAIN loads : ImgOnload(i)
  \/ FlushEffects
  \/ \E cb \in rafPending : Animate(cb)
  \/ \E pt \in HandPoints : SetInteractionPoint(pt)
  \/ \E pt \in MousePoints : HandleMouseMove(pt)
  \/ HandleMouseLeave

PointerSpec == PointerInit /\ [][PointerNext]_vars

\* The sampler alone: the component mounts on a window of one of the sample
\* sizes, its image one of the sample bitmaps; the image loads and the timer
\* the mount armed fires.
SamplerInit ==
  /\ phase = "committed"
  /\ imageSrc \in SampleSrcs
  /\ window \in SampleSizes
  /\ canvas = <<300, 150>>
  /\ mainCtxOk \in BOOLEAN
  /\ arrays = << <<>> >>
  /\ particles = 1
  /\ effectPending = FALSE
  /\ rafPending = {}
  /\ animationRef = 0
  /\ rafNext = 1
  /\ targetRef = NoPoint
  /\ currentRef = NoPoint
  /\ imageRef = 0
  /\ loads = <<>>
  /\ timers = {}
  /\ resizeTimeoutRef = 0
  /\ now = 0
  /\ timerNext = 1
  /\ frames = 0
  /\ lastFrame = [target |-> NoPoint, before |-> NoPoint]
  /\ events = 0
  /\ lastCallAt = -1
  /\ passes = 0
  /\ lastPass = [time |-> -1, cause |-> "none", timer |-> 0]
  /\ created = << <<>> >>
  /\ appState = "IDLE"
  /\ requests = 0
  /\ errorTimers = 0

SamplerNext ==
  \/ \E t \in timers : TimerFire(t)
  \/ /\ ~TimerDue
     /\ \/ Mount
        \/ Tick
        \/ \E i \in DOMAIN loads : ImgOnload(i)
        \/ FlushEffects

SamplerSpec == SamplerInit /\ [][SamplerNext]_vars

\* The mounted component, its imageSrc changing and its window resized while
\* images load and the debounce timer runs; no frame is drawn.
ReloadInit == PointerInit /\ imageSrc = 1 /\ window = <<8, 8>>

ReloadNext ==
  \/ \E t \in timers : TimerFire(t)
  \/ /\ ~TimerDue
     /\ \/ Mount
        \/ \E src \in ImageSrcs : SetImageSrc(src)
        \/ \E size \in WindowSizes : Resize(size)
        \/ Tick
        \/ \E i \in DOMAIN loads : ImgOnload(i)
        \/ FlushEffects

ReloadSpec == ReloadInit /\ [][ReloadNext]_vars

\* The mounted component with the Controls panel: generate clicks, the
\* requests' outcomes and the ERROR-to-IDLE timeouts, while the images the
\* panel selects load.  A request resolves or rejects, and a timeout fires,
\* at any later moment.
ControlsNext ==
  \/ \E t \in timers : TimerFire(t)
  \/ /\ ~TimerDue
     /\ \/ Mount
        \/ Tick
        \/ \E i \in DOMAIN loads : ImgOnload(i)
        \/ FlushEffects
        \/ \E keyOk, promptOk \in BOOLEAN : HandleGenerate(keyOk, promptOk)
        \/ \E src \in ImageSrcs : GenerateResolves(src)
        \/ GenerateFails
        \/ ErrorTimerFire

ControlsSpec == ReloadInit /\ [][ControlsNext]_vars

-----------------------------------------------------------------------------
(* Properties: the particles' origins and the pointer smoothing *)

\* The particles the component holds: the installed array and the arrays the
\* requested frames close over.
Held == UNION {{arrays[k][i] : i \in DOMAIN arrays[k]} : k \in Live(rafPending, particles)}

\* C1: every particle's originX and originY keep the values they were created
\* with, across resize events, target updates and frames; the home position
\* is derived from them and the canvas's dimensions.
OriginsKept == \A k \in DOMAIN arrays : OriginsOf(arrays[k]) = created[k]

\* C1's case: a frame has moved the installed particles, the pointer present,
\* on a canvas resized since they were sampled (a 6 x 6 canvas samples none).
OriginsKeptCase ==
  /\ Len(arrays[particles]) > 0
  /\ canvas = <<6, 6>>
  /\ frames > 0
  /\ currentRef # NoPoint
  /\ \E p \in Held : p.x # Num(HomeOf(8, p.originX))

\* The distance from home within which a particle counts as arrived: two pixels.
Eps == 2 * Q

\* A further frame with the pointer absent leaves particle p as it is.
AtRest(p) == StepParticle(p, NoPoint, canvas[1], canvas[2]) = p

NearHome(p) ==
  /\ IsNum(p.x)
  /\ IsNum(p.y)
  /\ Abs(Val(p.x) - HomeOf(canvas[1], p.originX)) <= Eps
  /\ Abs(Val(p.y) - HomeOf(canvas[2], p.originY)) <= Eps

\* C2: with the target and the current point null, repeated frames bring every
\* particle to within Eps of its home and keep it there; so a particle that
\* frames no longer change, the pointer absent, is within Eps of its home.
RestsAtHome ==
  (targetRef = NoPoint /\ currentRef = NoPoint)
    => \A p \in Held : AtRest(p) => NearHome(p)

\* Both coordinates of a point are numbers.
Present(pt) == pt.x # Null /\ pt.y # Null

\* C3: a frame that starts with the target and the current point both
\* non-null ends with current + (target - current) * 0.15 on each axis, applied
\* once; from (0, 0) towards (100, 100) that is (15, 15).
LerpsTowardsTarget ==
  (frames > 0 /\ Present(lastFrame.target) /\ Present(lastFrame.before))
    => /\ currentRef.x = Num(Val(lastFrame.before.x)
             + RoundDiv((Val(lastFrame.target.x) - Val(lastFrame.before.x)) * 15, 100))
       /\ currentRef.y = Num(Val(lastFrame.before.y)
             + RoundDiv((Val(lastFrame.target.y) - Val(lastFrame.before.y)) * 15, 100))
       /\ (lastFrame.before.x = Px(0) /\ lastFrame.target.x = Px(100)
             => currentRef.x = Px(15))
       /\ (lastFrame.before.y = Px(0) /\ lastFrame.target.y = Px(100)
             => currentRef.y = Px(15))

\* C3's case: the frame from (0, 0) towards (100, 100).
LerpsTowardsTargetCase ==
  /\ frames > 0
  /\ lastFrame.before = [x |-> Px(0), y |-> Px(0)]
  /\ lastFrame.target = [x |-> Px(100), y |-> Px(100)]
  /\ currentRef = [x |-> Px(15), y |-> Px(15)]

\* C4: a frame that starts with the current point null and the target
\* non-null ends with the current point equal to the target.
SnapsToTarget ==
  (frames > 0 /\ Present(lastFrame.target) /\ lastFrame.before.x = Null)
    => currentRef = lastFrame.target

\* C4's case: the third frame snaps, the current point having held a value
\* and become null in the frames before.
SnapsToTargetCase ==
  /\ frames >= 3
  /\ events >= 3
  /\ lastFrame.before = NoPoint
  /\ Present(lastFrame.target)
  /\ currentRef = lastFrame.target

\* C5: a frame that starts with the target (null, null) ends with the current
\* point (null, null), whatever it was before.
NullTargetClears ==
  (frames > 0 /\ lastFrame.target = NoPoint) => currentRef = NoPoint

\* C5's case: the frame after the pointer left, the current point holding a
\* value before it.
NullTargetClearsCase ==
  /\ frames > 0
  /\ lastFrame.target = NoPoint
  /\ Present(lastFrame.before)
  /\ currentRef = NoPoint

-----------------------------------------------------------------------------
(* Properties: the debounced resize and the mount *)

\* A step that is a sampling pass called by a timer.
ResizePass == passes' = passes + 1 /\ lastPass'.cause = "resize"

\* The pending timer is the one the last handleResize call armed.
OneTimer ==
  \A t \in timers :
    /\ t.id = resizeTimeoutRef
    /\ t.id < timerNext
    /\ t.due = lastCallAt + 200
    /\ t.due >= now

\* C6: a burst of resize events, a bitmap loaded, triggers exactly one
\* sampling pass, 200 ms after the burst's last event, and none by its earlier
\* events: a timer's pass is the pass of the last call's timer, 200 ms after
\* that call, and that timer is then spent; the last call's timer, when it is
\* due with a bitmap loaded, does call the sampler.  (Timers fire at the
\* instant they are due.)
DebouncedOnce ==
  /\ []OneTimer
  /\ [][/\ ResizePass
           => /\ lastPass'.timer = resizeTimeoutRef
              /\ now = lastCallAt + 200
              /\ imageRef # 0
              /\ \A t \in timers' : t.id # lastPass'.timer
        /\ (/\ \E t \in timers : t.due = now /\ timers' = timers \ {t}
            /\ phase' = phase
            /\ imageRef # 0
            /\ CanvasAttached)
           => ResizePass]_vars

\* C6's case: the mount's call and two resize events armed three timers; the
\* third fired, 200 ms after the last event, and made the one pass that
\* followed the load's.
DebouncedOnceCase ==
  /\ lastPass.cause = "resize"
  /\ lastPass.timer = 3
  /\ lastPass.time = lastCallAt + 200
  /\ passes = 2
  /\ events = 2

\* C7 as stated: the component once mounted has run a sampling pass.
MountSamples == phase = "mounted" => passes > 0

\* The step in which the effects first run.
Mounting == phase = "committed" /\ phase' = "mounted"

\* C7, amended: the mount resizes the canvas to the window, starts the image
\* load and arms the 200 ms timer, and runs no sampling pass; a pass is run
\* only by a completed load or by a fired timer that finds a bitmap loaded.
MountResizesOnly ==
  /\ [][Mounting
          => /\ canvas' = window
             /\ passes' = passes
             /\ loads' = <<imageSrc>>
             /\ timers' = {[id |-> timerNext, due |-> now + 200]}]_vars
  /\ [][passes' = passes + 1
          => \/ lastPass'.cause = "load" /\ Len(loads') < Len(loads)
             \/ ResizePass /\ imageRef # 0 /\ timers' # timers]_vars

\* C7's case: the component just mounted, its canvas the window's size, the
\* load and the timer pending and no pass run.
MountResizesOnlyCase ==
  /\ phase = "mounted"
  /\ passes = 0
  /\ canvas = window
  /\ loads # <<>>
  /\ timers # {}
  /\ now = lastCallAt

-----------------------------------------------------------------------------
(* Properties: the animation loop *)

\* A non-empty particle set is installed.
Installed == Len(arrays[particles]) > 0

\* C8 as stated: the loop is running whenever the component is mounted with
\* a non-empty particle set installed (and the animation effect has run).
LoopRunsWhileInstalled ==
  (phase = "mounted" /\ ~effectPending /\ Installed) => rafPending # {}

\* C8, amended: once the animation effect has run for the installed set, the
\* loop is running if the component is mounted, the set is non-empty and the
\* canvas yields a 2D context, and it is stopped if the set is empty; it is
\* stopped once the component is torn down.
LoopRunsWithContext ==
  /\ (phase = "mounted" /\ ~effectPending /\ Installed /\ mainCtxOk) => rafPending # {}
  /\ (~effectPending /\ ~Installed) => rafPending = {}
  /\ phase = "unmounted" => rafPending = {}

\* C8's case: frames have run and rescheduled for the installed set.
LoopRunsWithContextCase ==
  /\ phase = "mounted"
  /\ ~effectPending
  /\ Installed
  /\ mainCtxOk
  /\ frames >= 2
  /\ rafPending # {}

\* The refs are detached, or the cleanups have run as well.
TornDown == phase \in {"unmounting", "unmounted"}

\* A step in which animate runs past its early returns.
FrameRuns == frames' = frames + 1

\* C9: after the teardown no frame is pending and none executes, whether the
\* teardown came before the first frame, between frames or after a frame
\* rescheduled itself.
NoFrameAfterTeardown ==
  /\ [](phase = "unmounted" => rafPending = {})
  /\ [][TornDown => ~FrameRuns]_vars

\* C9's case: torn down after a frame that had rescheduled itself.
NoFrameAfterTeardownCase ==
  /\ phase = "unmounted"
  /\ mainCtxOk
  /\ frames >= 1
  /\ animationRef = rafNext - 1
  /\ rafPending = {}

\* C10: at most one animation-frame callback is pending, the one
\* animationRef names, whatever frames, set replacements and teardown did.
OneFramePending ==
  /\ Cardinality(rafPending) <= 1
  /\ \A cb \in rafPending : cb.id = animationRef

\* C10's case: the set was replaced after frames had run, and the one pending
\* callback closes over the installed set.
OneFramePendingCase ==
  /\ passes >= 2
  /\ frames >= 1
  /\ Installed
  /\ rafPending = {[id |-> animationRef, set |-> particles]}
  /\ \E k \in 2..(particles - 1) : created[k] = <<>>

-----------------------------------------------------------------------------
(* Properties: the image loads and the sampler *)

\* The images still loading once the i-th of them has loaded.
LoadsWithout(i) ==
  [k \in 1..(Len(loads) - 1) |-> IF k < i THEN loads[k] ELSE loads[k + 1]]

\* C11: with several loads in flight, the load that completes samples its own
\* bitmap, whatever imageSrc is by then; so the installed set is that of the
\* load that completed last, and an earlier-requested image that loads later
\* overwrites the set of a newer one.
LastLoadWins ==
  [][\A i \in DOMAIN loads :
       (loads' = LoadsWithout(i) /\ CanvasAttached)
         => /\ imageRef' = loads[i]
            /\ particles' # particles
                 => \E tape \in Tapes :
                      arrays'[particles'] =
                        NewParticles(Bitmaps[loads[i]], canvas[1], canvas[2], tape)]_vars

\* C11's case: imageSrc became 2 while image 1 was loading; image 2 loaded
\* first and image 1 last, and the installed set is image 1's (two particles
\* on the 8 x 8 canvas, where image 2 yields one).
LastLoadWinsCase ==
  /\ imageSrc = 2
  /\ imageRef = 1
  /\ loads = <<>>
  /\ passes = 2
  /\ lastPass.cause = "load"
  /\ canvas = <<8, 8>>
  /\ Len(arrays[particles]) = 2
  /\ particles = 3

\* A step that is a sampling call which installs no particle set.
NoOpPass == passes' = passes + 1 /\ particles' = particles

\* C12: a sampling call that finds the offscreen 2D context unavailable
\* preserves all prior state: the particle arrays, the installed set and the
\* remembered bitmap (imageRef) that a later resize re-samples.
NoOpPreservesState ==
  [][NoOpPass => /\ arrays' = arrays
                 /\ effectPending' = effectPending
                 /\ imageRef' = imageRef]_vars

-----------------------------------------------------------------------------
(* Properties: the physics pass *)

\* Particle p after a frame that applies the home spring only.
SpringOnly(p, width, height) ==
  LET vx == Damp(Spring(p.x, p.vx, HomeOf(width, p.originX)))
      vy == Damp(Spring(p.y, p.vy, HomeOf(height, p.originY)))
  IN [p EXCEPT !.vx = vx, !.vy = vy, !.x = Add(p.x, vx), !.y = Add(p.y, vy)]

-----------------------------------------------------------------------------
(* Properties: the sampler's output *)

\* A sampling pass has installed a particle set.
Sampled == particles # 1

\* The ambient particles of an array (an image particle is pure white, an
\* ambient one never is), and its image particles.
AmbientOf(ps) == SelectSeq(ps, LAMBDA p : p.color # 255)
ImageOf(ps) == SelectSeq(ps, LAMBDA p : p.color = 255)

\* n is floor(pi * (0.45 * m) ^ 2 / 30), for m up to 100: with
\* 333/106 < pi < 355/113, n <= 355/113 * 27 * m * m / 4000 and
\* 333/106 * 27 * m * m / 4000 < n + 1, which only that floor satisfies.
IsDiskCount(n, m) ==
  /\ n * 90400 <= 1917 * m * m
  /\ 8991 * m * m < (n + 1) * 424000

\* C14: a sampling pass on a W x H canvas produces
\* min(floor(pi * (0.45 * min(W, H)) ^ 2 / 30), 20000) ambient particles,
\* whatever the bitmap: the installed set holds that many, and so does the
\* count for sizes up to the cap (19993 at 971, capped from 972 on).
AmbientCountFormula ==
  /\ Sampled => IsDiskCount(Len(AmbientOf(arrays[particles])), Min(canvas[1], canvas[2]))
  /\ \A m \in 1..100 :
       /\ IsDiskCount(AmbientCount(m, m), m)
       /\ IsDiskCount(AmbientCount(m, m + 7), m)
       /\ IsDiskCount(AmbientCount(m + 300, m), m)
  /\ AmbientCount(747, 747) = 11832
  /\ AmbientCount(768, 1024) = 12507
  /\ AmbientCount(971, 980) = 19993
  /\ AmbientCount(972, 972) = 20000
  /\ AmbientCount(1058, 1000) = 20000

\* C14's case: the pass on the 20 x 14 canvas, with four ambient particles
\* and image particles besides.
AmbientCountFormulaCase ==
  /\ Sampled
  /\ canvas = <<20, 14>>
  /\ Len(AmbientOf(arrays[particles])) = 4
  /\ Len(ImageOf(arrays[particles])) > 0

\* The grid positions of a W x H buffer whose pixel the sampler keeps: x and y
\* multiples of the stride, the pixel's alpha above 128.
KeptPixels(img, W, H) ==
  LET stride == IF W < 768 THEN 3 ELSE 2
  IN {at \in (0..(W - 1)) \X (0..(H - 1)) :
        /\ at[1] % stride = 0
        /\ at[2] % stride = 0
        /\ AlphaAt(img, W, H, at[1], at[2]) > 128}

Opaque(img, W, H) ==
  \A at \in (0..(W - 1)) \X (0..(H - 1)) : AlphaAt(img, W, H, at[1], at[2]) > 128

\* C15: a sampling pass emits exactly one image particle for each grid
\* position of the buffer whose alpha is above 128 and none for another pixel,
\* each with origin (x - W/2, y - H/2); on an opaque buffer at least 768 wide
\* that is ceil(W/2) * ceil(H/2) particles.
ImageParticlesOnGrid ==
  Sampled =>
    LET W == canvas[1]
        H == canvas[2]
        img == Bitmaps[imageRef]
        kept == KeptPixels(img, W, H)
        origins == OriginsOf(ImageOf(arrays[particles]))
    IN /\ Len(origins) = Cardinality(kept)
       /\ {origins[i] : i \in DOMAIN origins}
            = {<<at[1] * Q - (W * Q) \div 2, at[2] * Q - (H * Q) \div 2>> : at \in kept}
       /\ (Opaque(img, W, H) /\ W >= 768)
            => Len(origins) = ((W + 1) \div 2) * ((H + 1) \div 2)

\* C15's case: the opaque 770 x 4 buffer, with 385 * 2 image particles.
ImageParticlesOnGridCase ==
  /\ Sampled
  /\ canvas = <<770, 4>>
  /\ Opaque(Bitmaps[imageRef], 770, 4)
  /\ Len(ImageOf(arrays[particles])) = 770

-----------------------------------------------------------------------------
(* Properties: the interaction point *)

\* The coordinates of a point are both null or both non-null.
Paired(pt) == (pt.x = Null) <=> (pt.y = Null)

\* C16: the raw target and the smoothed point each have x and y both null or
\* both non-null, after any setInteractionPoint calls of the gesture feed,
\* mouse moves and leaves, and frames.
PointsPaired == Paired(targetRef) /\ Paired(currentRef)

\* C16's case: the pointer has left after a frame smoothed it: the target is
\* null in both coordinates, the smoothed point still non-null in both.
PointsPairedCase ==
  /\ frames >= 1
  /\ events >= 2
  /\ targetRef = NoPoint
  /\ Present(currentRef)

-----------------------------------------------------------------------------
(* Properties: sampling again *)

\* C17: sampling the same bitmap at the same canvas dimensions again (the
\* mount's timer re-samples the loaded bitmap, no resize event having come)
\* yields a set with the same ambient count, the same image-particle count
\* and the same sequence of image-particle origins; only the draws differ.
SamplingIdempotent ==
  [][(ResizePass /\ events = 0 /\ Sampled /\ particles' # particles)
       => LET before == arrays[particles]
              after == arrays'[particles']
          IN /\ Len(AmbientOf(after)) = Len(AmbientOf(before))
             /\ Len(ImageOf(after)) = Len(ImageOf(before))
             /\ OriginsOf(ImageOf(after)) = OriginsOf(ImageOf(before))]_vars

\* C17's case: the load's pass and the timer's pass sampled the first bitmap
\* on the 20 x 14 canvas with different draws.
SamplingIdempotentCase ==
  /\ passes = 2
  /\ lastPass.cause = "resize"
  /\ events = 0
  /\ particles = 3
  /\ imageRef = 1
  /\ canvas = <<20, 14>>
  /\ Len(ImageOf(arrays[particles])) > 1
  /\ arrays[particles][1].density = 22

-----------------------------------------------------------------------------
(* Properties: the forces *)

\* C18: a frame whose smoothed point is non-null computes dx and dy from the
\* point's own coordinates, a coordinate of exactly 0 included: the coordinate
\* that stands for the point in dx and dy is the point's own.
UsesOwnCoordinates ==
  (frames > 0 /\ Present(currentRef) /\ Held # {})
    => /\ OrSentinel(currentRef.x) = currentRef.x
       /\ OrSentinel(currentRef.y) = currentRef.y

\* The point a frame's forces are measured from: the smoothed point's own
\* coordinates, the off-screen sentinel when the point is null.
PointOrSentinel(pt) ==
  IF Present(pt) THEN pt ELSE [x |-> Px(Sentinel), y |-> Px(Sentinel)]

\* Particle p after a frame that applies exactly one force, chosen by p's
\* distance to pt: the repulsion inside the radius, the home spring outside;
\* then the friction, then the move.
OneForce(p, pt, width, height) ==
  LET dx == Sub(pt.x, p.x)
      dy == Sub(pt.y, p.y)
      radius == InteractionRadius * Q
      near == IsNum(dx) /\ IsNum(dy) /\ Within(Val(dx), Val(dy), radius)
      distance == Sqrt(Val(dx) * Val(dx) + Val(dy) * Val(dy))
      vx == Damp(IF near
                 THEN IF distance = 0 THEN NaN
                      ELSE Sub(p.vx, Num(Repulsion(Val(dx), distance, radius, p.density)))
                 ELSE Spring(p.x, p.vx, HomeOf(width, p.originX)))
      vy == Damp(IF near
                 THEN IF distance = 0 THEN NaN
                      ELSE Sub(p.vy, Num(Repulsion(Val(dy), distance, radius, p.density)))
                 ELSE Spring(p.y, p.vy, HomeOf(height, p.originY)))
  IN [p EXCEPT !.vx = vx, !.vy = vy, !.x = Add(p.x, vx), !.y = Add(p.y, vy)]

\* C19: in each frame every particle gets exactly one force: within the
\* radius (320) of the interaction point the repulsion unitDirection *
\* ((radius - distance) / radius) * density * 2.0 and no spring, otherwise
\* the spring (position - home) / 25 and no repulsion; then the velocity is
\* multiplied by 0.90, and only then added to the position.
ExactlyOneForce ==
  [][FrameRuns
       => /\ InteractionRadius = 320 /\ SpringDivisor = 25 /\ Friction = 90
          /\ \A cb \in rafPending :
               arrays'[cb.set] =
                 [i \in DOMAIN arrays[cb.set] |->
                    OneForce(arrays[cb.set][i], PointOrSentinel(currentRef'),
                             canvas[1], canvas[2])]]_vars

\* Particle p is exactly at the position the physics pass uses for pt.
AtPoint(p, pt) == p.x = OrSentinel(pt.x) /\ p.y = OrSentinel(pt.y)

\* The velocity and the position of p are NaN.
Undefined(p) == p.vx = NaN /\ p.vy = NaN /\ p.x = NaN /\ p.y = NaN

\* C20: a particle exactly at the interaction position a frame uses
\* (distance 0) is not guarded: the frame leaves its velocity and its
\* position NaN.
ZeroDistanceUndefined ==
  [][FrameRuns
       => \A cb \in rafPending : \A i \in DOMAIN arrays[cb.set] :
            AtPoint(arrays[cb.set][i], currentRef')
              => Undefined(arrays'[cb.set][i])]_vars

\* C20's case: the first frame, the pointer present, has left a particle
\* with NaN velocity and position.
ZeroDistanceUndefinedCase ==
  /\ frames = 1
  /\ Present(currentRef)
  /\ ~Present(lastFrame.before)
  /\ \E p \in Held : Undefined(p)

-----------------------------------------------------------------------------
(* Properties: recovery *)

\* The position of p is a number.
Defined(p) == IsNum(p.x) /\ IsNum(p.y)

\* C21: a bad frame self-corrects: a frame with no interaction point leaves
\* every particle at a defined position, whatever an earlier frame made of
\* it, the NaN of a zero-distance frame included.
SelfCorrects ==
  [][(FrameRuns /\ currentRef' = NoPoint)
       => \A cb \in rafPending : \A i \in DOMAIN arrays'[cb.set] :
            Defined(arrays'[cb.set][i])]_vars

-----------------------------------------------------------------------------
(* Properties: resize and re-sampling *)

\* A resize event reaches the mounted component.
ResizeEvent == phase = "mounted" /\ window' # window

\* The event sets the canvas to the window's size and leaves the particles.
ResizesAtOnce ==
  /\ canvas' = window'
  /\ particles' = particles
  /\ arrays' = arrays
  /\ passes' = passes

\* The frame's physics, with the size of the last resize event.
FrameAtWindowSize ==
  \A cb \in rafPending :
    arrays'[cb.set] = Physics(arrays[cb.set], currentRef', window[1], window[2])

\* C22: a resize event sets the canvas dimensions at once and leaves the
\* particle set; every frame, the first after the event included, computes
\* the centre and the homes from the event's dimensions with the particles
\* it holds, whether or not the debounced re-sampling has run.
FrameUsesNewSize ==
  [][/\ ResizeEvent => ResizesAtOnce
     /\ FrameRuns => FrameAtWindowSize]_vars

\* C22's case: the one frame so far ran after a resize event and before its
\* timer fired, on the set sampled at the old size, with the new homes.
FrameUsesNewSizeCase ==
  /\ frames = 1
  /\ passes = 1
  /\ resizeTimeoutRef # 0
  /\ \E t \in timers : t.id = resizeTimeoutRef
  /\ \E old \in WindowSizes, tape \in Tapes :
       LET new == NewParticles(Bitmaps[imageRef], old[1], old[2], tape)
       IN /\ old # canvas
          /\ arrays[particles] = Physics(new, NoPoint, canvas[1], canvas[2])
          /\ arrays[particles] # Physics(new, NoPoint, old[1], old[2])

\* A timer's callback runs: the timer leaves the pending ones and none is armed.
TimerFired == timers' # timers /\ timers' \subseteq timers /\ phase' = phase

\* The i-th of the loading images completes, the canvas attached.
LoadCompletes(i) == loads' = LoadsWithout(i) /\ CanvasAttached

\* The pass samples the remembered bitmap at the canvas's dimensions.
SamplesRemembered ==
  /\ imageRef # 0
  /\ imageRef' = imageRef
  /\ canvas' = canvas
  /\ particles' # particles
       => \E tape \in Tapes :
            arrays'[particles'] =
              NewParticles(Bitmaps[imageRef], canvas[1], canvas[2], tape)

\* C23: a debounced re-sampling pass samples the bitmap of the most recent
\* completed image load (the remembered bitmap is set by a completing load
\* and by nothing else) at the canvas dimensions of the moment the timer
\* fires; a timer that fires when no image has loaded leaves the particle
\* set, and the canvas keeps the dimensions the resize gave it.
ResamplesLastLoaded ==
  [][/\ \A i \in DOMAIN loads : LoadCompletes(i) => imageRef' = loads[i]
     /\ imageRef' # imageRef => \E i \in DOMAIN loads : LoadCompletes(i)
     /\ ResizePass => TimerFired /\ SamplesRemembered
     /\ (TimerFired /\ imageRef = 0)
          => /\ passes' = passes
             /\ particles' = particles
             /\ arrays' = arrays
             /\ imageRef' = 0
             /\ canvas' = canvas
             /\ canvas = window]_vars

\* C23's case: imageSrc changed, its image still loading, and the timer of
\* a resize has sampled the bitmap of the last completed load at the
\* resized canvas.
ResamplesLastLoadedCase ==
  /\ lastPass.cause = "resize"
  /\ lastPass.timer > 1
  /\ imageRef # 0
  /\ imageRef # imageSrc
  /\ loads = <<imageSrc>>
  /\ particles # 1
  /\ canvas = window
  /\ \E tape \in Tapes :
       arrays[particles] = NewParticles(Bitmaps[imageRef], canvas[1], canvas[2], tape)

-----------------------------------------------------------------------------
(* Properties: what a frame and a pass may change *)

\* What a frame leaves of a particle: p and q differ in position and
\* velocity at most.
SameButMotion(p, q) ==
  q = [p EXCEPT !.x = q.x, !.y = q.y, !.vx = q.vx, !.vy = q.vy]

\* The frame keeps every array's length and order and, of each particle,
\* all but its position and velocity; it keeps the installed set, the raw
\* target and the canvas.
FrameKeeps ==
  /\ DOMAIN arrays' = DOMAIN arrays
  /\ \A k \in DOMAIN arrays :
       /\ Len(arrays'[k]) = Len(arrays[k])
       /\ \A i \in DOMAIN arrays[k] : SameButMotion(arrays[k][i], arrays'[k][i])
  /\ particles' = particles
  /\ targetRef' = targetRef
  /\ canvas' = canvas
  /\ window' = window
  /\ imageRef' = imageRef

\* The installed set is replaced by a sampling pass, by a new array that
\* the pass sampled whole.
ReplacedByPass ==
  /\ passes' = passes + 1
  /\ particles' \notin DOMAIN arrays
  /\ \E tape \in Tapes :
       arrays'[particles'] =
         NewParticles(Bitmaps[imageRef'], canvas[1], canvas[2], tape)

\* C24: a frame changes positions, velocities and the smoothed point only:
\* the number and order of the particles, their color, size and density, the
\* raw target and the canvas dimensions stay (the interaction radius is the
\* constant InteractionRadius); the installed set changes only when a
\* sampling pass replaces it whole.
FrameMovesOnly ==
  [][/\ FrameRuns => FrameKeeps
     /\ particles' # particles => ReplacedByPass]_vars

\* C24's case: a frame, the pointer present, has set in motion a particle of
\* an installed set of several particles.
FrameMovesOnlyCase ==
  /\ frames = 1
  /\ Present(currentRef)
  /\ Len(arrays[particles]) >= 2
  /\ \E i \in DOMAIN arrays[particles] :
       LET p == arrays[particles][i]
       IN IsNum(p.vx) /\ Val(p.vx) # 0 /\ p.x # Num(HomeOf(canvas[1], p.originX))

-----------------------------------------------------------------------------
(* Properties: after the teardown *)

\* No sampling pass runs and the installed set stays.
NoPass == passes' = passes /\ particles' = particles /\ imageRef' = imageRef

\* C25: after the teardown no sampling pass runs and the particle set is not
\* replaced: the cleanup has cleared the pending debounce timer, and an image
\* that finishes loading after the unmount calls no initParticles.
NoPassAfterTeardown ==
  /\ [](phase = "unmounted" => timers = {})
  /\ [][TornDown => NoPass]_vars

\* C25's case: unmounted before the timer of the mount was due and before
\* the image loaded; the timer is gone, the image has loaded since, and no
\* pass has run.
NoPassAfterTeardownCase ==
  /\ phase = "unmounted"
  /\ resizeTimeoutRef # 0
  /\ now < DueAt(lastCallAt)
  /\ timers = {}
  /\ loads = <<>>
  /\ imageRef = 0
  /\ passes = 0
  /\ particles = 1

-----------------------------------------------------------------------------
(* Properties: the Controls panel *)

\* C26: appState is LOADING for as long as an image-generation request is in
\* flight, whatever generate clicks, failures and ERROR-to-IDLE timeouts
\* came before.
LoadingWhileInFlight == requests > 0 => appState = "LOADING"

=============================================================================
